---- MODULE Spec2Model ----
(***************************************************************************)
(* The linear genetic programming engine.                                   *)
(*                                                                         *)
(* The evolutionary driver: GeneticAlgorithm::{init_population, evaluate,  *)
(* rank, apply_selection, breed, execute} of src/src/core/algorithm.rs,    *)
(* over the Population container of src/src/algorithm.rs and the Program   *)
(* ordering and generation of src/src/genes/program.rs.                    *)
(*   Spec            the run of execute (hooks included);                  *)
(*   FairSpec        Spec with the fairness of a single-threaded run: a    *)
(*                   step that can be taken is taken;                      *)
(*   CallSpec        the trait functions called one by one in any order on *)
(*                   one population, as the tests of src/src/data/iris.rs  *)
(*                   do;                                                   *)
(*   InitSpec        init_population alone;                                *)
(*   BreedSpec       breed on the survivors of a selection;                *)
(*   ConfigSpec      Spec entered with any hyperparameters, invalid ones   *)
(*                   included;                                             *)
(*   OrderSpec       evaluate on one population in two visiting orders;    *)
(*   PopulationSpec  push, pop and sort on a Population in any order.      *)
(*                                                                         *)
(* The fitness evaluators and the metric:                                  *)
(*   ClassSpec  eval_fitness of src/src/extensions/classification.rs over  *)
(*              a dataset of labelled records;                             *)
(*   RLSpec     eval_fitness of src/src/extensions/reinforcement_learning  *)
(*              .rs over an environment;                                   *)
(*   EvalSpec   either of the two;                                         *)
(*   RLRepeatSpec  RLSpec with eval_fitness called again and again on the  *)
(*              same program;                                              *)
(*   ArgmaxSpec the argmax of the episodic evaluator on any register bank; *)
(*   AccSpec    the Accuracy accumulator of src/src/metrics.rs fed one     *)
(*              stream of observations in two orders.                      *)
(*                                                                         *)
(* The linked list of src/src/utils/linked_list.rs:                        *)
(*   CursorSpec next and seek of a cursor on a list built by extend;       *)
(*   SwapSpec   one swap between cursors on two lists built by extend;     *)
(*   ListSpec   append, extend, dequeue, clear, split_after and swap in    *)
(*              any order.                                                 *)
(***************************************************************************)
EXTENDS Integers, Sequences, FiniteSets

VARIABLES
    hyper_params,       \* HyperParameters of the run (ratios as numerators over RatioDen)
    hooks,              \* the EventHooks that are Some
    population,         \* Population.0 : the programs, front first
    capacity,           \* Population.1 : the capacity it was built with
    pc,                 \* position of execute / of the caller
    generation,         \* iterations of `for _ in 0..max_generations` started
    remaining_size,     \* breed's local
    n_mutations_todo,   \* breed's local
    n_crossovers_todo,  \* breed's local
    removed,            \* programs popped by the apply_selection that just returned
    was_sorted,         \* whether that apply_selection was entered with a sorted population
    pop_len,            \* apply_selection's local: the length it was entered with
    rescored,           \* cached programs eval_fitness ran on in the evaluate that just returned
    added,              \* what the current breed pushed, in push order
    last,               \* the trait function that returned last
    trace,              \* the steps and hook invocations of execute, in order
    hook_failed,        \* whether the hook invoked last returned Err
    result,             \* what execute returned: "none" (running), "Ok", "Err"
    program,            \* the program eval_fitness is called on
    inputs,             \* classification: the labelled records of the dataset
    parameters,         \* episodic: n_runs, max_episode_length and the rewards of the environment
    eval_pc,            \* position of eval_fitness
    cursor,             \* records (classification) or runs (episodic) completed
    run_step,           \* episodic: iterations of the inner loop of the current run
    registers,          \* the register bank the last execution left (before its reset)
    fitness,            \* classification: the Accuracy accumulator of eval_fitness
    outcomes,           \* classification: what was observed, record by record
    run_score,          \* episodic: the running score of the current run
    scores,             \* episodic: the scores pushed so far
    calls,              \* episodic: the calls made on the environment, in order
    returned,           \* what eval_fitness returned
    stream,             \* accumulator: observations still to come, in stream order
    permuted,           \* accumulator: the same observations reordered, still to come
    accuracy,           \* accumulator fed in stream order
    accuracy_permuted,  \* accumulator fed in the other order
    evaluations,        \* one population evaluated in two visiting orders, side by side
    nodes,              \* linked list: the heap of Node<T>, node i holding the data i
    lists,              \* linked list: the LinkedList<T> values (head, tail, length)
    cursors,            \* linked list: the CursorMut values (list, current, index)
    list_op,            \* linked list: the operation that ran last, with what it was given
    list_pc             \* linked list: how that operation ended

driver_vars == <<hyper_params, hooks, population, capacity, pc, generation,
                 remaining_size, n_mutations_todo, n_crossovers_todo,
                 removed, was_sorted, pop_len, rescored, added, last, trace,
                 hook_failed, result>>

eval_vars == <<program, inputs, parameters, eval_pc, cursor, run_step, registers, fitness,
               outcomes, run_score, scores, calls, returned>>

metric_vars == <<stream, permuted, accuracy, accuracy_permuted>>

order_vars == <<evaluations>>

list_vars == <<nodes, lists, cursors, list_op, list_pc>>

vars == <<driver_vars, eval_vars, metric_vars, order_vars, list_vars>>

\* the variables of a part of the engine that is not running
DriverIdle ==
    /\ hyper_params = <<>> /\ hooks = {} /\ population = <<>> /\ capacity = 0
    /\ pc = "none" /\ generation = 0 /\ remaining_size = 0
    /\ n_mutations_todo = 0 /\ n_crossovers_todo = 0 /\ removed = <<>>
    /\ was_sorted = TRUE /\ pop_len = 0 /\ rescored = 0 /\ added = <<>>
    /\ last = "none" /\ trace = <<>> /\ hook_failed = FALSE /\ result = "none"

EvalIdle ==
    /\ program = <<>> /\ inputs = <<>> /\ parameters = <<>> /\ eval_pc = "none"
    /\ cursor = 0 /\ run_step = 0 /\ registers = <<>> /\ fitness = <<>>
    /\ outcomes = <<>> /\ run_score = 0 /\ scores = <<>> /\ calls = <<>>
    /\ returned = <<>>

MetricIdle ==
    /\ stream = <<>> /\ permuted = <<>> /\ accuracy = <<>> /\ accuracy_permuted = <<>>

OrderIdle == evaluations = <<>>

ListIdle ==
    /\ nodes = <<>> /\ lists = <<>> /\ cursors = <<>> /\ list_op = <<>>
    /\ list_pc = "none"

-----------------------------------------------------------------------------
(* Bounds of the model *)

MaxPop == 3
\* population sizes of the runs of execute that install hooks
MaxHookPop == 1
MaxInstr == 1
\* max_instructions of the populations built by init_population alone
MaxInitInstr == 4
MaxScore == 1
MaxGen == 2
\* gap, n_mutations and n_crossovers are k / RatioDen.  On a dyadic grid every
\* f32 product the driver forms is exact; off it the model takes the exact
\* rational value.
RatioDen == 2

Ratios == 0..RatioDen
Scores == 0..MaxScore

-----------------------------------------------------------------------------
(* Option<FitnessScore> and the order of programs *)

None == <<>>
Some(x) == <<x>>

\* (mutant) None ordered above every Some
FitnessLeqNoneTop(f, g) == g = None \/ (f /= None /\ f[1] <= g[1])

\* Option::cmp on the cached fitness: None is below every Some
FitnessLeq(f, g) == f = None \/ (g /= None /\ f[1] <= g[1])

\* impl Ord / PartialOrd for Program: by fitness only
ProgramLeq(a, b) == FitnessLeq(a.fitness, b.fitness)

IsSorted(s) == \A i, j \in 1..Len(s) : i < j => ProgramLeq(s[i], s[j])

-----------------------------------------------------------------------------
(* Program *)

\* (mutant) the count drawn past max_instructions
GenerateLengthsWide(max_instructions) == 0..(max_instructions + 1)

\* Program::generate: n_instructions drawn by UniformInt::new(0, max_instructions),
\* which samples the half-open range [0, max_instructions) and panics when it is empty
GenerateLengths(max_instructions) == 0..(max_instructions - 1)

Generate(max_instructions) ==
    { [n |-> k, fitness |-> None] : k \in GenerateLengths(max_instructions) }

\* the cut segment of a parent with n instructions
SegmentLengths(n) == IF n < 2 THEN 0..n ELSE 1..n

Min(a, b) == IF a <= b THEN a ELSE b

\* two_point_crossover: both children, segments swapped, tail truncated, fitness cleared
TwoPointCrossover(a, b, max_instructions) ==
    UNION { { [n |-> Min(max_instructions, a.n - sa + sb), fitness |-> None],
              [n |-> Min(max_instructions, b.n - sb + sa), fitness |-> None] } :
            sa \in SegmentLengths(a.n), sb \in SegmentLengths(b.n) }

\* mutate: one instruction redrawn on a copy, fitness cleared
Mutate(p) == [p EXCEPT !.fitness = None]

\* Option::get_or_insert
GetOrInsert(f, v) == IF f = None THEN Some(v) ELSE f

\* eval_set_fitness: `*self.fitness.get_or_insert(self.eval_fitness())`; the
\* argument is computed before get_or_insert looks at the cache
EvalSetFitness(p, score) == [p EXCEPT !.fitness = GetOrInsert(p.fitness, score)]

\* the programs on which one eval_set_fitness call runs eval_fitness
EvalFitnessRuns(p) == TRUE

-----------------------------------------------------------------------------
(* Population *)

\* (mutant) f_push: push_front
PushFront(s, p) == <<p>> \o s

\* Population::push: push_back
Push(s, p) == Append(s, p)

\* the programs of ps pushed one after the other
RECURSIVE PushAll(_, _)
PushAll(s, ps) == IF ps = <<>> THEN s ELSE PushAll(Push(s, Head(ps)), Tail(ps))

\* (mutant) pop_back
PopBack(q) == IF q.kept = <<>> THEN q
              ELSE [kept |-> SubSeq(q.kept, 1, Len(q.kept) - 1),
                    popped |-> Append(q.popped, q.kept[Len(q.kept)])]

\* Population::f_pop: pop_front, nothing on an empty population; `popped`
\* collects what pop_front returned
Pop(q) == IF q.kept = <<>> THEN q
          ELSE [kept |-> Tail(q.kept), popped |-> Append(q.popped, Head(q.kept))]

\* `for _ in 0..k { population.pop(); }`
RECURSIVE PopTimes(_, _)
PopTimes(q, k) == IF k = 0 THEN q ELSE PopTimes(Pop(q), k - 1)

\* place p behind every element that is not above it (a stable insertion)
RECURSIVE InsertSorted(_, _)
InsertSorted(s, p) ==
    IF s = <<>> THEN <<p>>
    ELSE IF ProgramLeq(s[Len(s)], p) THEN Append(s, p)
    ELSE Append(InsertSorted(SubSeq(s, 1, Len(s) - 1), p), s[Len(s)])

\* Population::sort: the stable ascending sort of the slice
RECURSIVE Sort(_)
Sort(s) == IF s = <<>> THEN <<>>
           ELSE InsertSorted(Sort(SubSeq(s, 1, Len(s) - 1)), s[Len(s)])

\* the sequences of k distinct positions of s (choose_multiple)
ChooseMultiple(s, k) ==
    LET m == Min(k, Len(s))
    IN  { f \in [1..m -> 1..Len(s)] : \A i, j \in 1..m : i /= j => f[i] /= f[j] }

-----------------------------------------------------------------------------
(* The trait functions; `ret` is where the caller continues *)

Panic(at) ==
    /\ pc' = "panicked"
    /\ last' = at

\* init_population
InitPopulation(ret) ==
    LET size == hyper_params.population_size
        max_instructions == hyper_params.max_instructions
    IN  /\ capacity' = size
        /\ IF size > 0 /\ Generate(max_instructions) = {}
           THEN /\ Panic("init_population")
                /\ UNCHANGED population
           ELSE /\ \E ps \in [1..size -> Generate(max_instructions)] :
                       population' = PushAll(<<>>, ps)
                /\ pc' = ret
                /\ last' = "init_population"
        /\ UNCHANGED <<eval_vars, metric_vars, order_vars, list_vars,
                   hyper_params, hooks, generation, remaining_size,
                       n_mutations_todo, n_crossovers_todo, removed, was_sorted,
                       pop_len, rescored, added, result, hook_failed>>

\* evaluate: eval_set_fitness on every individual
Evaluate(ret) ==
    /\ \E score \in [{ i \in 1..Len(population) : population[i].fitness = None }
                        -> Scores] :
           \* eval_fitness is a function of the program and its inputs: on a
           \* cached program it returns the cached score again
           population' = [i \in 1..Len(population) |->
                             EvalSetFitness(population[i],
                                 IF population[i].fitness = None THEN score[i]
                                 ELSE population[i].fitness[1])]
    /\ rescored' = Cardinality({ i \in 1..Len(population) :
                        population[i].fitness /= None /\ EvalFitnessRuns(population[i]) })
    /\ removed' = <<>>
    /\ added' = <<>>
    /\ pc' = ret
    /\ last' = "evaluate"
    /\ UNCHANGED <<eval_vars, metric_vars, order_vars, list_vars,
                   hyper_params, hooks, capacity, generation, remaining_size,
                   n_mutations_todo, n_crossovers_todo, was_sorted, pop_len,
                   result, hook_failed>>

\* rank
Rank(ret) ==
    /\ population' = Sort(population)
    /\ removed' = <<>>
    /\ rescored' = 0
    /\ added' = <<>>
    /\ pc' = ret
    /\ last' = "rank"
    /\ UNCHANGED <<eval_vars, metric_vars, order_vars, list_vars,
                   hyper_params, hooks, capacity, generation, remaining_size,
                   n_mutations_todo, n_crossovers_todo, was_sorted, pop_len,
                   result, hook_failed>>

\* cutoff_index = ((1 - gap) * pop_len).floor()
CutoffIndex(gap, len) == ((RatioDen - gap) * len) \div RatioDen

\* apply_selection
ApplySelection(gap, ret) ==
    /\ rescored' = 0
    /\ added' = <<>>
    /\ IF ~(gap >= 0 /\ gap <= RatioDen)
       THEN /\ Panic("apply_selection")
            /\ UNCHANGED <<population, removed, was_sorted, pop_len>>
       ELSE IF population /= <<>>
               /\ ~ProgramLeq(population[1], population[Len(population)])
       THEN /\ Panic("apply_selection")
            /\ UNCHANGED <<population, removed, was_sorted, pop_len>>
       ELSE LET cutoff_index == CutoffIndex(gap, Len(population))
                after == PopTimes([kept |-> population, popped |-> <<>>],
                                  cutoff_index)
            IN  /\ pop_len' = Len(population)
                /\ was_sorted' = IsSorted(population)
                /\ population' = after.kept
                /\ removed' = after.popped
                /\ pc' = ret
                /\ last' = "apply_selection"
    /\ UNCHANGED <<eval_vars, metric_vars, order_vars, list_vars,
                   hyper_params, hooks, capacity, generation, remaining_size,
                   n_mutations_todo, n_crossovers_todo, result, hook_failed>>

\* n_*_todo = (ratio * remaining_size).floor()
Todo(ratio, remaining) == (ratio * remaining) \div RatioDen

\* breed, up to the crossover + mutation loop
BreedStart(n_mutations, n_crossovers) ==
    /\ removed' = <<>>
    /\ rescored' = 0
    /\ added' = <<>>
    /\ IF \/ Len(population) > capacity
          \/ n_mutations < 0 \/ n_crossovers < 0
          \/ n_crossovers + n_mutations > RatioDen
          \/ n_mutations > RatioDen \/ n_crossovers > RatioDen
       THEN /\ Panic("breed")
            /\ UNCHANGED <<remaining_size, n_mutations_todo, n_crossovers_todo>>
       ELSE LET remaining == capacity - Len(population)
            IN  /\ remaining_size' = remaining
                /\ n_mutations_todo' = Todo(n_mutations, remaining)
                /\ n_crossovers_todo' = Todo(n_crossovers, remaining)
                /\ IF Todo(n_mutations, remaining) + Todo(n_crossovers, remaining)
                        > remaining
                   THEN Panic("breed")
                   ELSE pc' = "breed_loop" /\ UNCHANGED last
    /\ UNCHANGED <<eval_vars, metric_vars, order_vars, list_vars,
                   hyper_params, hooks, population, capacity, generation,
                   was_sorted, pop_len, result, trace, hook_failed>>

\* the children one iteration pushes, for parents at positions a and b
CrossoverChildren(a, b) ==
    IF n_crossovers_todo > 0
    THEN { <<c>> : c \in TwoPointCrossover(population[a], population[b],
                                           hyper_params.max_instructions) }
    ELSE { <<>> }

MutationChildren(a, b) ==
    IF n_mutations_todo > 0
    THEN { <<Mutate(population[a])>>, <<Mutate(population[b])>> }
    ELSE { <<>> }

\* whether the programs at `positions` were all in the population when the
\* current breed started
Survivors(positions) == \A i \in positions : i <= Len(population) - Len(added)

\* what breed notes of a push: the kind of program, the position a clone
\* copies, and whether the programs it was made from are survivors
Tag(children, kind, parents) ==
    [i \in 1..Len(children) |->
        [kind |-> kind, from |-> 0, of_survivors |-> Survivors(parents)]]

\* one iteration of `while (n_crossovers_todo + n_mutations_todo) > 0`
BreedIterate ==
    /\ pc = "breed_loop"
    /\ n_crossovers_todo + n_mutations_todo > 0
    /\ IF Len(population) < 2
       THEN \* choose_multiple yields fewer than two parents: the slice pattern
            \* does not match and the iteration changes nothing
            UNCHANGED <<population, remaining_size, n_mutations_todo,
                        n_crossovers_todo, added>>
       ELSE \E a, b \in 1..Len(population) :
              /\ a /= b
              /\ \E child_a \in CrossoverChildren(a, b),
                    child_b \in MutationChildren(a, b) :
                   /\ population' = PushAll(PushAll(population, child_a), child_b)
                   /\ added' = added \o Tag(child_a, "crossover", {a, b})
                                     \o Tag(child_b, "mutation", {a, b})
                   /\ remaining_size' = remaining_size - Len(child_a) - Len(child_b)
                   /\ n_crossovers_todo' = n_crossovers_todo - Len(child_a)
                   /\ n_mutations_todo' = n_mutations_todo - Len(child_b)
    /\ UNCHANGED <<eval_vars, metric_vars, order_vars, list_vars,
                   hyper_params, hooks, capacity, pc, generation, removed,
                   was_sorted, pop_len, rescored, last, trace, result, hook_failed>>

\* (mutant) clones pushed with their fitness cleared
ClonesCleared(s, picks) == [i \in 1..Len(picks) |-> [s[picks[i]] EXCEPT !.fitness = None]]

\* the clones the fill pushes: copies of the programs at the chosen positions
Clones(s, picks) == [i \in 1..Len(picks) |-> s[picks[i]]]

\* breed, after the loop: "Fill reset with clones"
BreedFill(ret) ==
    /\ pc = "breed_loop"
    /\ n_crossovers_todo + n_mutations_todo = 0
    /\ \E picks \in ChooseMultiple(population, remaining_size) :
          /\ population' = PushAll(population, Clones(population, picks))
          /\ added' = added \o [i \in 1..Len(picks) |->
                                   [kind |-> "clone", from |-> picks[i],
                                    of_survivors |-> Survivors({picks[i]})]]
    /\ pc' = ret
    /\ last' = "breed"
    /\ UNCHANGED <<eval_vars, metric_vars, order_vars, list_vars,
                   hyper_params, hooks, capacity, generation, remaining_size,
                   n_mutations_todo, n_crossovers_todo, removed, was_sorted,
                   pop_len, rescored, result, hook_failed>>

-----------------------------------------------------------------------------
(* execute *)

HookNames == {"after_init", "after_evaluate", "after_rank", "after_selection",
              "after_breed"}

\* (mutant) rank left out of the cycle
AfterHookSkipsRank(h) ==
    CASE h = "after_init" -> "loop_head"
      [] h = "after_evaluate" -> "apply_selection"
      [] h = "after_rank" -> "apply_selection"
      [] h = "after_selection" -> "breed"
      [] h = "after_breed" -> "loop_head"

\* where execute continues when the hook at h is None or returned Ok
AfterHook(h) ==
    CASE h = "after_init" -> "loop_head"
      [] h = "after_evaluate" -> "rank"
      [] h = "after_rank" -> "apply_selection"
      [] h = "after_selection" -> "breed"
      [] h = "after_breed" -> "loop_head"

\* (mutant) the hook's Err is dropped
HookReturnContinue(h, ok) == AfterHook(h)

\* `(hook)(&mut population)?`
HookReturn(h, ok) == IF ok THEN AfterHook(h) ELSE "failed"

Log(e) == trace' = Append(trace, e)

ExecInitPopulation ==
    /\ pc = "init_population"
    /\ InitPopulation("after_init")
    /\ Log("init_population")

\* `if let Some(hook) = after_x { (hook)(&mut population)?; }`
HookStep ==
    \E h \in HookNames :
      /\ pc = h
      /\ IF h \in hooks
         THEN \E ok \in BOOLEAN :
                /\ hook_failed' = ~ok
                /\ pc' = HookReturn(h, ok)
                /\ result' = IF HookReturn(h, ok) = "failed" THEN "Err" ELSE result
                /\ Log(h)
         ELSE /\ pc' = AfterHook(h)
              /\ UNCHANGED <<result, trace, hook_failed>>
      /\ UNCHANGED <<eval_vars, metric_vars, order_vars, list_vars,
                   hyper_params, hooks, population, capacity, generation,
                     remaining_size, n_mutations_todo, n_crossovers_todo, removed,
                     was_sorted, pop_len, rescored, added, last>>

\* `for _ in 0..hyper_params.max_generations` and `Ok(population)`
LoopHead ==
    /\ pc = "loop_head"
    /\ IF generation < hyper_params.max_generations
       THEN /\ generation' = generation + 1
            /\ pc' = "evaluate"
            /\ UNCHANGED result
       ELSE /\ pc' = "done"
            /\ result' = "Ok"
            /\ UNCHANGED generation
    /\ UNCHANGED <<eval_vars, metric_vars, order_vars, list_vars,
                   hyper_params, hooks, population, capacity, remaining_size,
                   n_mutations_todo, n_crossovers_todo, removed, was_sorted,
                   pop_len, rescored, added, last, trace, hook_failed>>

ExecEvaluate ==
    /\ pc = "evaluate"
    /\ Evaluate("after_evaluate")
    /\ Log("evaluate")

ExecRank ==
    /\ pc = "rank"
    /\ Rank("after_rank")
    /\ Log("rank")

ExecApplySelection ==
    /\ pc = "apply_selection"
    /\ ApplySelection(hyper_params.gap, "after_selection")
    /\ Log("apply_selection")

ExecBreedStart ==
    /\ pc = "breed"
    /\ BreedStart(hyper_params.n_mutations, hyper_params.n_crossovers)

ExecBreedFill ==
    /\ BreedFill("after_breed")
    /\ Log("breed")

\* the hyperparameter records with population_size up to max_size
HyperParameters(max_size) ==
    { hp \in [population_size : 0..max_size, gap : Ratios, n_mutations : Ratios,
              n_crossovers : Ratios, max_generations : 1..MaxGen,
              max_instructions : 0..MaxInstr] :
        hp.n_mutations + hp.n_crossovers <= RatioDen }

\* execute is entered with EventHooks::default() and any hyperparameters, or
\* with any hooks installed and a small population
Init ==
    /\ \/ hyper_params \in HyperParameters(MaxPop) /\ hooks = {}
       \/ hyper_params \in HyperParameters(MaxHookPop) /\ hooks \in SUBSET HookNames
    /\ population = <<>>
    /\ capacity = 0
    /\ pc = "init_population"
    /\ generation = 0
    /\ remaining_size = 0
    /\ n_mutations_todo = 0
    /\ n_crossovers_todo = 0
    /\ removed = <<>>
    /\ was_sorted = TRUE
    /\ pop_len = 0
    /\ rescored = 0
    /\ added = <<>>
    /\ last = "none"
    /\ trace = <<>>
    /\ hook_failed = FALSE
    /\ result = "none"
    /\ EvalIdle
    /\ MetricIdle
    /\ OrderIdle
    /\ ListIdle

Next ==
    \/ ExecInitPopulation
    \/ HookStep
    \/ LoopHead
    \/ ExecEvaluate
    \/ ExecRank
    \/ ExecApplySelection
    \/ ExecBreedStart
    \/ BreedIterate
    \/ ExecBreedFill

Spec == Init /\ [][Next]_vars

FairSpec == Spec /\ WF_vars(Next)

-----------------------------------------------------------------------------
(* The trait functions called one by one on a population *)

CallInit ==
    /\ hyper_params \in [population_size : 0..MaxPop, gap : {0}, n_mutations : {0},
                          n_crossovers : {0}, max_generations : {0},
                          max_instructions : 0..MaxInstr]
    /\ hooks = {}
    /\ population = <<>>
    /\ capacity = 0
    /\ pc = "new"
    /\ generation = 0
    /\ remaining_size = 0
    /\ n_mutations_todo = 0
    /\ n_crossovers_todo = 0
    /\ removed = <<>>
    /\ was_sorted = TRUE
    /\ pop_len = 0
    /\ rescored = 0
    /\ added = <<>>
    /\ last = "none"
    /\ trace = <<>>
    /\ hook_failed = FALSE
    /\ result = "none"
    /\ EvalIdle
    /\ MetricIdle
    /\ OrderIdle
    /\ ListIdle

CallInitPopulation ==
    /\ pc = "new"
    /\ InitPopulation("idle")
    /\ UNCHANGED trace

CallEvaluate ==
    /\ pc = "idle"
    /\ Evaluate("idle")
    /\ UNCHANGED trace

CallRank ==
    /\ pc = "idle"
    /\ Rank("idle")
    /\ UNCHANGED trace

CallApplySelection ==
    /\ pc = "idle"
    /\ \E gap \in Ratios : ApplySelection(gap, "idle")
    /\ UNCHANGED trace

CallBreedStart ==
    /\ pc = "idle"
    /\ \E n_mutations, n_crossovers \in Ratios :
          /\ n_mutations + n_crossovers <= RatioDen
          /\ BreedStart(n_mutations, n_crossovers)

CallBreedFill ==
    /\ BreedFill("idle")
    /\ UNCHANGED trace

CallNext ==
    \/ CallInitPopulation
    \/ CallEvaluate
    \/ CallRank
    \/ CallApplySelection
    \/ CallBreedStart
    \/ BreedIterate
    \/ CallBreedFill

CallSpec == CallInit /\ [][CallNext]_vars

-----------------------------------------------------------------------------
(* init_population alone, over a wider range of max_instructions *)

InitOnlyInit ==
    /\ hyper_params \in [population_size : 0..MaxPop, gap : {0}, n_mutations : {0},
                          n_crossovers : {0}, max_generations : {0},
                          max_instructions : 0..MaxInitInstr]
    /\ hooks = {}
    /\ population = <<>>
    /\ capacity = 0
    /\ pc = "new"
    /\ generation = 0
    /\ remaining_size = 0
    /\ n_mutations_todo = 0
    /\ n_crossovers_todo = 0
    /\ removed = <<>>
    /\ was_sorted = TRUE
    /\ pop_len = 0
    /\ rescored = 0
    /\ added = <<>>
    /\ last = "none"
    /\ trace = <<>>
    /\ hook_failed = FALSE
    /\ result = "none"
    /\ EvalIdle
    /\ MetricIdle
    /\ OrderIdle
    /\ ListIdle

InitOnlyNext == CallInitPopulation

InitSpec == InitOnlyInit /\ [][InitOnlyNext]_vars

-----------------------------------------------------------------------------
(* Register bank, instructions, argmax and the accuracy metric *)

\* the task of the model: the binary classification of utils/test.rs, records
\* of one feature
NClasses == 2
FeatureValues == {0, 1}
Features == [1..1 -> FeatureValues]
Classes == 1..NClasses

\* length of the bank: n_action_registers + n_input_registers
NRegisters == NClasses + 1

\* Registers::new
RegistersNew(n_registers) == [i \in 1..n_registers |-> 0]

\* the executables of the task
Ops == {"add", "sub", "mul"}

\* Instruction: op, mode, dst in [0, R), src in [0, L) with L the length of
\* the operand space of the mode (indices are 1-based here)
Instructions ==
    [op : Ops, mode : {"Internal"}, dst : 1..NRegisters, src : 1..NRegisters]
    \cup [op : Ops, mode : {"External"}, dst : 1..NRegisters, src : 1..1]

Combine(op, a, b) ==
    CASE op = "add" -> a + b
      [] op = "sub" -> a - b
      [] op = "mul" -> a * b

\* Instruction::apply: registers[dst] := op(registers[dst], operand at src)
Apply(instruction, r, input) ==
    LET operand == IF instruction.mode = "External"
                   THEN input.features[instruction.src]
                   ELSE r[instruction.src]
    IN  [r EXCEPT ![instruction.dst] = Combine(instruction.op, r[instruction.dst], operand)]

\* `for instruction in &self.instructions { instruction.apply(&mut registers, input) }`
RECURSIVE ApplyAll(_, _, _)
ApplyAll(instructions, r, input) ==
    IF instructions = <<>> THEN r
    ELSE ApplyAll(Tail(instructions), Apply(Head(instructions), r, input), input)

MaxOf(S) == CHOOSE m \in S : \A x \in S : x <= m

\* Registers::argmax, the lookup: the indices among the first n_classes
\* registers that hold the maximum
Ties(r, n_classes) ==
    LET max_value == MaxOf({ r[i] : i \in 1..n_classes })
    IN  { i \in 1..n_classes : r[i] = max_value }

\* Registers::argmax(n_classes, desired_index)
RegistersArgmax(r, n_classes, desired_index) ==
    LET indices == Ties(r, n_classes)
    IN  IF desired_index \in indices /\ Cardinality(indices) = 1
        THEN Some(desired_index)
        ELSE None

\* (mutant) the first of the tied indices wins
InputArgmaxFirst(ties) == Some(CHOOSE k \in ties : \A j \in ties : k <= j)

\* ValidInput::argmax (IrisInput): None on a tie, the class of the only index
\* otherwise
InputArgmax(ties) ==
    IF Cardinality(ties) > 1 THEN None ELSE Some(CHOOSE k \in ties : TRUE)

\* Accuracy(n_correct, total)
AccuracyNew == [n_correct |-> 0, total |-> 0]

\* a prediction counts when it is Some and equal to the truth
Hit(pair) == pair[1] /= None /\ pair[1] = pair[2]

\* (mutant) a miss clears the count of hits
ObserveStreak(acc, value) ==
    [n_correct |-> IF value THEN acc.n_correct + 1 ELSE 0, total |-> acc.total + 1]

\* Accuracy::observe
Observe(acc, value) ==
    LET count == IF value THEN 1 ELSE 0
    IN  [n_correct |-> acc.n_correct + count, total |-> acc.total + 1]

\* Accuracy::calculate: n_correct as f32 / total as f32, kept as the pair
\* (numerator, denominator); 0.0 / 0.0 is the f32 NaN
Calculate(acc) == [num |-> acc.n_correct, den |-> acc.total]

-----------------------------------------------------------------------------
(* The classification evaluator: Program::eval_fitness over labelled records *)

MaxProgLen == 1
MaxRecords == 2

SeqsUpTo(S, n) == UNION { [1..k -> S] : k \in 0..n }

\* the programs of the engine: any instructions, the zeroed bank of
\* Program::generate, fitness not yet set
Programs ==
    { [instructions |-> is, registers |-> RegistersNew(NRegisters), fitness |-> None] :
        is \in SeqsUpTo(Instructions, MaxProgLen) }

Records == [features : Features, class : Classes]

\* (mutant) the instructions run on the program's own bank
ExecRecordInPlace(p, previous, input) ==
    LET r == ApplyAll(p.instructions, p.registers, input)
    IN  [self |-> [p EXCEPT !.registers = r], registers |-> r]

\* (mutant) the bank cloned once, before the first record, and never reset
ExecRecordCarry(p, previous, input) ==
    [self |-> p,
     registers |-> ApplyAll(p.instructions,
                            IF previous = <<>> THEN p.registers ELSE previous, input)]

\* one record of eval_fitness: `let mut registers = self.registers.clone()` and
\* the instructions applied to the clone; `previous` is the bank the record
\* before left, which the loop drops.  Yields the program and the clone.
ExecRecord(p, previous, input) ==
    [self |-> p, registers |-> ApplyAll(p.instructions, p.registers, input)]

ClassInit ==
    /\ program \in Programs
    /\ inputs \in SeqsUpTo(Records, MaxRecords)
    /\ parameters = <<>>
    /\ eval_pc = "records"
    /\ cursor = 0
    /\ run_step = 0
    /\ registers = <<>>
    /\ fitness = AccuracyNew
    /\ outcomes = <<>>
    /\ run_score = 0
    /\ scores = <<>>
    /\ calls = <<>>
    /\ returned = <<>>
    /\ DriverIdle
    /\ MetricIdle
    /\ OrderIdle
    /\ ListIdle

\* one iteration of `for input in inputs`
ClassRecord ==
    /\ eval_pc = "records"
    /\ cursor < Len(inputs)
    /\ LET input == inputs[cursor + 1]
           exec == ExecRecord(program, registers, input)
           ties == Ties(exec.registers, NClasses)
           predicted_class == InputArgmax(ties)
           correct_class == input.class
           pair == <<predicted_class, Some(correct_class)>>
       IN  /\ program' = exec.self
           /\ registers' = exec.registers
           /\ fitness' = Observe(fitness, Hit(pair))
           /\ outcomes' = Append(outcomes, [input |-> input,
                                            registers |-> exec.registers,
                                            predicted |-> predicted_class,
                                            hit |-> Hit(pair)])
    /\ cursor' = cursor + 1
    /\ UNCHANGED <<inputs, parameters, eval_pc, run_step, run_score, scores, calls,
                   returned, driver_vars, metric_vars, order_vars, list_vars>>

\* `fitness.calculate()`
ClassReturn ==
    /\ eval_pc = "records"
    /\ cursor = Len(inputs)
    /\ returned' = <<Calculate(fitness)>>
    /\ eval_pc' = "done"
    /\ UNCHANGED <<program, inputs, parameters, cursor, run_step, registers, fitness,
                   outcomes, run_score, scores, calls, driver_vars, metric_vars, order_vars, list_vars>>

ClassNext == ClassRecord \/ ClassReturn

ClassSpec == ClassInit /\ [][ClassNext]_vars

-----------------------------------------------------------------------------
(* The episodic evaluator: Program::eval_fitness over an environment *)

MaxRuns == 2
MaxEpisodeLength == 2
MaxReward == 1

\* the runs of the scripted environment: run i ends at its first act with the
\* terminal reward script[i]
ScriptedRewards == <<1, 2, 3, 4, 5>>

Permutations(s) ==
    { [i \in DOMAIN s |-> s[f[i]]] :
        f \in { g \in [DOMAIN s -> DOMAIN s] : \A i, j \in DOMAIN s : g[i] = g[j] => i = j } }

\* ReinforcementLearningParameters: n_runs, max_episode_length and the
\* environment, which is free (any reward of `rewards`, terminal or not, next
\* state any of `states`) or scripted; `action` is the action it received last
FreeParameters ==
    [n_runs : 0..MaxRuns, max_episode_length : 0..MaxEpisodeLength,
     rewards : {{0, MaxReward}}, script : {<<>>}, states : {{0}}, state : {0},
     action : {0}]

ScriptedParameters ==
    [n_runs : {Len(ScriptedRewards)}, max_episode_length : {1},
     rewards : {{}}, script : Permutations(ScriptedRewards), states : {{0}},
     state : {0}, action : {0}]

\* what one act of the environment may answer in run `run` (0-based)
ActAnswers(p, run) ==
    IF p.script = <<>>
    THEN [value : p.rewards, terminal : BOOLEAN, state : p.states]
    ELSE { [value |-> p.script[run + 1], terminal |-> TRUE, state |-> p.state] }

\* Program::exec: the instructions applied in order to a clone of the
\* program's bank, which is returned; self is not changed
Exec(p, input) == ApplyAll(p.instructions, p.registers, input)

\* (mutant) exec runs the instructions on the program's own bank
ExecSelfInPlace(p, input) == [p EXCEPT !.registers = Exec(p, input)]

\* the program as `self.exec(&parameters.environment)` leaves it
ExecSelf(p, input) == p

\* (mutant) any action register can be picked
ParametersArgmaxAny(r) == 1..NClasses

\* ReinforcementLearningParameters::argmax: the indices the random choice
\* among the action registers holding the maximum can yield
ParametersArgmax(r) == Ties(r, NClasses)

\* a call on the environment; for act, the reward it answered
Call(op, value, terminal) == [op |-> op, value |-> value, terminal |-> terminal]

\* (mutant) the episode goes on after a terminal reward
AfterActNoBreak(terminal) == "steps"

\* `if state_reward.is_terminal() { break; }`
AfterAct(terminal) == IF terminal THEN "end_run" ELSE "steps"

\* (mutant) the upper median
MedianIndexUpper(n_runs) == (n_runs + 1) \div 2

\* `parameters.n_runs / 2`
MedianIndex(n_runs) == n_runs \div 2

\* (mutant) the terminal reward is left out of the score
AddRewardNoTerminal(s, answer) == IF answer.terminal THEN s ELSE s + answer.value

\* `score += state_reward.get_value()`
AddReward(s, answer) == s + answer.value

\* scores.sort_by(partial_cmp)
RECURSIVE SortScores(_)
SortScores(s) ==
    IF s = <<>> THEN <<>>
    ELSE LET rest == SortScores(Tail(s))
             k == Cardinality({ i \in 1..Len(rest) : rest[i] <= Head(s) })
         IN  SubSeq(rest, 1, k) \o <<Head(s)>> \o SubSeq(rest, k + 1, Len(rest))

\* parameters of one run of two steps, rewards all 0
TwoStepParameters ==
    [n_runs : {1}, max_episode_length : {2}, rewards : {{0}}, script : {<<>>},
     states : {FeatureValues}, state : FeatureValues, action : {0}]

\* any program on a run of two steps, or the program without instructions on
\* any parameters
RLInit ==
    /\ \/ program \in Programs /\ parameters \in TwoStepParameters
       \/ /\ program \in { p \in Programs : p.instructions = <<>> }
          /\ parameters \in FreeParameters \cup ScriptedParameters
    /\ inputs = <<>>
    /\ eval_pc = "init"
    /\ cursor = 0
    /\ run_step = 0
    /\ registers = <<>>
    /\ fitness = <<>>
    /\ outcomes = <<>>
    /\ run_score = 0
    /\ scores = <<>>
    /\ calls = <<>>
    /\ returned = <<>>
    /\ DriverIdle
    /\ MetricIdle
    /\ OrderIdle
    /\ ListIdle

RLFrame == UNCHANGED <<inputs, fitness, driver_vars, metric_vars, order_vars, list_vars>>

\* where the loop over the runs continues once `done` runs are complete
NextRun(done) == IF done < parameters.n_runs THEN "steps" ELSE "sort"

\* `parameters.environment.init()`
RLEnvInit ==
    /\ eval_pc = "init"
    /\ calls' = Append(calls, Call("init", 0, FALSE))
    /\ eval_pc' = NextRun(0)
    /\ UNCHANGED <<program, parameters, cursor, run_step, registers, outcomes,
                   run_score, scores, returned>>
    /\ RLFrame

\* one iteration of `for _ in 0..parameters.max_episode_length`
RLStep ==
    /\ eval_pc = "steps"
    /\ run_step < parameters.max_episode_length
    /\ LET input == [features |-> <<parameters.state>>]
           exec == [input |-> input, registers |-> Exec(program, input)]
       IN  /\ registers' = exec.registers
           /\ outcomes' = IF \E i \in 1..Len(outcomes) : outcomes[i] = exec
                          THEN outcomes ELSE Append(outcomes, exec)
    /\ program' = ExecSelf(program, [features |-> <<parameters.state>>])
    /\ \E picked_action \in ParametersArgmax(program'.registers),
          answer \in ActAnswers(parameters, cursor) :
         /\ parameters' = [parameters EXCEPT !.state = answer.state,
                                             !.action = picked_action]
         /\ calls' = Append(calls, Call("act", answer.value, answer.terminal))
         /\ run_score' = AddReward(run_score, answer)
         /\ eval_pc' = AfterAct(answer.terminal)
    /\ run_step' = run_step + 1
    /\ UNCHANGED <<cursor, scores, returned>>
    /\ RLFrame

\* `scores.push(score); parameters.environment.reset();` and the next run
RLEndRun ==
    /\ \/ eval_pc = "end_run"
       \/ eval_pc = "steps" /\ run_step = parameters.max_episode_length
    /\ scores' = Append(scores, run_score)
    /\ calls' = Append(calls, Call("reset", 0, FALSE))
    /\ \E state \in parameters.states :
          parameters' = [parameters EXCEPT !.state = state]
    /\ cursor' = cursor + 1
    /\ run_score' = 0
    /\ run_step' = 0
    /\ eval_pc' = NextRun(cursor + 1)
    /\ UNCHANGED <<program, registers, outcomes, returned>>
    /\ RLFrame

\* the sort, `finish()`, `scores.remove(n_runs / 2)` (which panics when the
\* index is not below the length) and `self.fitness = Some(median)`
RLReturn ==
    /\ eval_pc = "sort"
    /\ scores' = SortScores(scores)
    /\ calls' = Append(calls, Call("finish", 0, FALSE))
    /\ IF MedianIndex(parameters.n_runs) < Len(scores)
       THEN LET median == SortScores(scores)[MedianIndex(parameters.n_runs) + 1]
            IN  /\ program' = [program EXCEPT !.fitness = Some(median)]
                /\ returned' = <<median>>
                /\ eval_pc' = "done"
       ELSE /\ eval_pc' = "panicked"
            /\ UNCHANGED <<program, returned>>
    /\ UNCHANGED <<parameters, cursor, run_step, registers, outcomes, run_score>>
    /\ RLFrame

RLNext == RLEnvInit \/ RLStep \/ RLEndRun \/ RLReturn

RLSpec == RLInit /\ [][RLNext]_vars

\* the next call of eval_fitness on the same program and environment, as
\* evaluate makes in every generation
RLAgain ==
    /\ eval_pc = "done"
    /\ eval_pc' = "init"
    /\ cursor' = 0
    /\ run_step' = 0
    /\ run_score' = 0
    /\ scores' = <<>>
    /\ calls' = <<>>
    /\ returned' = <<>>
    /\ UNCHANGED <<program, parameters, registers, outcomes>>
    /\ RLFrame

RLRepeatNext == RLNext \/ RLAgain

RLRepeatSpec == RLInit /\ [][RLRepeatNext]_vars

\* argmax of the episodic evaluator's parameters alone, on any register bank
MaxRegister == 2

RegisterValues == (0 - MaxRegister)..MaxRegister

ArgmaxInit ==
    /\ registers \in [1..NRegisters -> RegisterValues]
    /\ eval_pc = "argmax"
    /\ program = <<>> /\ inputs = <<>> /\ parameters = <<>>
    /\ cursor = 0 /\ run_step = 0 /\ fitness = <<>>
    /\ outcomes = <<>> /\ run_score = 0 /\ scores = <<>> /\ calls = <<>>
    /\ returned = <<>>
    /\ DriverIdle
    /\ MetricIdle
    /\ OrderIdle
    /\ ListIdle

\* one call; `indices` is the vector the random choice is made from
ArgmaxCall ==
    /\ eval_pc = "argmax"
    /\ \E picked_action \in ParametersArgmax(registers) :
          returned' = <<[action |-> picked_action,
                         indices |-> ParametersArgmax(registers)]>>
    /\ eval_pc' = "done"
    /\ UNCHANGED <<program, inputs, parameters, cursor, run_step, registers, fitness,
                   outcomes, run_score, scores, calls, driver_vars, metric_vars, order_vars, list_vars>>

ArgmaxNext == ArgmaxCall

ArgmaxSpec == ArgmaxInit /\ [][ArgmaxNext]_vars

\* either evaluator
EvalInit == ClassInit \/ RLInit

EvalNext == ClassRecord \/ ClassReturn \/ RLEnvInit \/ RLStep \/ RLEndRun \/ RLReturn

EvalSpec == EvalInit /\ [][EvalNext]_vars

-----------------------------------------------------------------------------
(* The accuracy accumulator fed one stream of observations in two orders *)

MaxStream == 4

AccInit ==
    /\ stream \in SeqsUpTo(BOOLEAN, MaxStream)
    /\ permuted \in Permutations(stream)
    /\ accuracy = AccuracyNew
    /\ accuracy_permuted = AccuracyNew
    /\ program = <<>> /\ inputs = <<>> /\ parameters = <<>> /\ eval_pc = "none"
    /\ cursor = 0 /\ run_step = 0 /\ registers = <<>> /\ fitness = <<>>
    /\ outcomes = <<stream, permuted>>
    /\ run_score = 0 /\ scores = <<>> /\ calls = <<>>
    /\ returned = <<>>
    /\ DriverIdle
    /\ OrderIdle
    /\ ListIdle

AccFrame ==
    UNCHANGED <<program, inputs, parameters, eval_pc, cursor, run_step, registers,
                fitness, outcomes, run_score, scores, calls, driver_vars, order_vars,
                list_vars>>

\* observe on the first accumulator
AccObserve ==
    /\ stream /= <<>>
    /\ accuracy' = Observe(accuracy, Head(stream))
    /\ stream' = Tail(stream)
    /\ UNCHANGED <<permuted, accuracy_permuted, returned>>
    /\ AccFrame

\* observe on the second accumulator
AccObservePermuted ==
    /\ permuted /= <<>>
    /\ accuracy_permuted' = Observe(accuracy_permuted, Head(permuted))
    /\ permuted' = Tail(permuted)
    /\ UNCHANGED <<stream, accuracy, returned>>
    /\ AccFrame

\* calculate on both, once the streams are through
AccCalculate ==
    /\ stream = <<>> /\ permuted = <<>> /\ returned = <<>>
    /\ returned' = <<Calculate(accuracy), Calculate(accuracy_permuted)>>
    /\ UNCHANGED <<stream, permuted, accuracy, accuracy_permuted>>
    /\ AccFrame

AccNext == AccObserve \/ AccObservePermuted \/ AccCalculate

AccSpec == AccInit /\ [][AccNext]_vars

-----------------------------------------------------------------------------
(* The Population container under any sequence of push, pop and sort *)

\* Population::new(capacity)
PopulationInit ==
    /\ capacity \in 0..MaxPop
    /\ population = <<>>
    /\ hyper_params = <<>> /\ hooks = {} /\ pc = "population" /\ generation = 0
    /\ remaining_size = 0 /\ n_mutations_todo = 0 /\ n_crossovers_todo = 0
    /\ removed = <<>> /\ was_sorted = TRUE /\ pop_len = 0 /\ rescored = 0
    /\ added = <<>> /\ last = "new" /\ trace = <<>> /\ hook_failed = FALSE
    /\ result = "none"
    /\ EvalIdle
    /\ MetricIdle
    /\ OrderIdle
    /\ ListIdle

PopulationFrame ==
    UNCHANGED <<hyper_params, hooks, capacity, pc, generation, remaining_size,
                n_mutations_todo, n_crossovers_todo, removed, was_sorted, pop_len,
                rescored, added, trace, hook_failed, result, eval_vars, metric_vars, order_vars, list_vars>>

\* push of any program; the model stops pushing one past the capacity
PopulationPush ==
    /\ Len(population) <= capacity
    /\ \E p \in [n : 0..MaxInstr, fitness : {None} \cup { Some(x) : x \in Scores }] :
          population' = Push(population, p)
    /\ last' = "push"
    /\ PopulationFrame

PopulationPop ==
    /\ population' = Pop([kept |-> population, popped |-> <<>>]).kept
    /\ last' = "pop"
    /\ PopulationFrame

PopulationSort ==
    /\ population' = Sort(population)
    /\ last' = "sort"
    /\ PopulationFrame

PopulationNext == PopulationPush \/ PopulationPop \/ PopulationSort

PopulationSpec == PopulationInit /\ [][PopulationNext]_vars

-----------------------------------------------------------------------------
(* breed on the survivors of a selection *)

MaxBreedCap == 4

\* the populations selection leaves: evaluated programs, ascending
SurvivorPopulations(cap) ==
    { s \in SeqsUpTo([n : 0..MaxInstr, fitness : { Some(x) : x \in Scores }], cap) :
        IsSorted(s) }

BreedInit ==
    /\ hyper_params \in [population_size : {0}, gap : {0}, n_mutations : {0},
                          n_crossovers : {0}, max_generations : {0},
                          max_instructions : {MaxInstr}]
    /\ hooks = {}
    /\ capacity \in 0..MaxBreedCap
    /\ population \in SurvivorPopulations(capacity)
    /\ pc = "idle"
    /\ generation = 0
    /\ remaining_size = 0
    /\ n_mutations_todo = 0
    /\ n_crossovers_todo = 0
    /\ removed = <<>>
    /\ was_sorted = TRUE
    /\ pop_len = 0
    /\ rescored = 0
    /\ added = <<>>
    /\ last = "apply_selection"
    /\ trace = <<>>
    /\ hook_failed = FALSE
    /\ result = "none"
    /\ EvalIdle
    /\ MetricIdle
    /\ OrderIdle
    /\ ListIdle

\* one call of breed
BreedCallStart ==
    /\ last = "apply_selection"
    /\ CallBreedStart

BreedNext == BreedCallStart \/ BreedIterate \/ CallBreedFill

BreedSpec == BreedInit /\ [][BreedNext]_vars

-----------------------------------------------------------------------------
(* execute entered with any hyperparameters, invalid ones included *)

\* hyperparameters the configuration rules exclude: a ratio outside [0, 1],
\* n_mutations + n_crossovers > 1, or population_size = 0
Invalid(hp) ==
    \/ hp.gap < 0 \/ hp.gap > RatioDen
    \/ hp.n_mutations < 0 \/ hp.n_mutations > RatioDen
    \/ hp.n_crossovers < 0 \/ hp.n_crossovers > RatioDen
    \/ hp.n_mutations + hp.n_crossovers > RatioDen
    \/ hp.population_size = 0

AnyRatios == (0 - 1)..(RatioDen + 1)

InvalidHyperParameters ==
    { hp \in [population_size : 0..MaxHookPop, gap : AnyRatios,
              n_mutations : AnyRatios, n_crossovers : AnyRatios,
              max_generations : 1..MaxGen, max_instructions : {MaxInstr}] :
        Invalid(hp) }

ConfigInit ==
    /\ \/ hyper_params \in HyperParameters(MaxPop) /\ hooks = {}
       \/ hyper_params \in InvalidHyperParameters /\ hooks \in {{}, HookNames}
    /\ population = <<>>
    /\ capacity = 0
    /\ pc = "init_population"
    /\ generation = 0
    /\ remaining_size = 0
    /\ n_mutations_todo = 0
    /\ n_crossovers_todo = 0
    /\ removed = <<>>
    /\ was_sorted = TRUE
    /\ pop_len = 0
    /\ rescored = 0
    /\ added = <<>>
    /\ last = "none"
    /\ trace = <<>>
    /\ hook_failed = FALSE
    /\ result = "none"
    /\ EvalIdle
    /\ MetricIdle
    /\ OrderIdle
    /\ ListIdle

ConfigSpec == ConfigInit /\ [][Next]_vars

-----------------------------------------------------------------------------
(* evaluate on one population in two visiting orders *)

MaxVisits == 2

\* `indices.choose(&mut generator())`: the draw of the process-wide generator
\* picks the position in the vector of tied indices
Choose(indices, draw) ==
    LET position == (draw % Cardinality(indices)) + 1
    IN  CHOOSE k \in indices : Cardinality({ j \in indices : j <= k }) = position

\* eval_fitness of the classification evaluator as a function: the records
\* observed one after the other, then calculate
RECURSIVE ObserveRecords(_, _, _)
ObserveRecords(acc, p, records) ==
    IF records = <<>> THEN acc
    ELSE LET input == Head(records)
             exec == ExecRecord(p, <<>>, input)
             pair == <<InputArgmax(Ties(exec.registers, NClasses)), Some(input.class)>>
         IN  ObserveRecords(Observe(acc, Hit(pair)), exec.self, Tail(records))

\* one episode of the episodic evaluator on an environment whose reward is
\* decided by the action alone; yields the score and the draws left
RECURSIVE Episode(_, _, _, _, _)
Episode(p, env, draws, steps, score) ==
    IF steps = 0 THEN [score |-> score, draws |-> draws]
    ELSE LET self == ExecSelf(p, [features |-> <<env.state>>])
             picked_action == Choose(ParametersArgmax(self.registers), Head(draws))
             answer == [value |-> env.payoff[picked_action], terminal |-> FALSE]
         IN  Episode(self, env, Tail(draws), steps - 1, AddReward(score, answer))

\* the runs of one eval_fitness; yields the scores and the draws left
RECURSIVE Episodes(_, _, _, _, _)
Episodes(p, env, draws, runs, pushed) ==
    IF runs = 0 THEN [scores |-> pushed, draws |-> draws]
    ELSE LET run == Episode(p, env, draws, env.max_episode_length, 0)
         IN  Episodes(p, env, run.draws, runs - 1, Append(pushed, run.score))

\* eval_fitness of either evaluator on program p: the fitness and the draws
\* of the generator it leaves
EvalFitness(kind, p, records, env, draws) ==
    IF kind = "classification"
    THEN [fitness |-> Calculate(ObserveRecords(AccuracyNew, p, records)),
          draws |-> draws]
    ELSE LET runs == Episodes(p, env, draws, env.n_runs, <<>>)
         IN  [fitness |-> SortScores(runs.scores)[MedianIndex(env.n_runs) + 1],
              draws |-> runs.draws]

\* an environment of one run of one step: init and reset restore it, the
\* reward of a step is decided by the action
OneStepParameters ==
    [n_runs : {1}, max_episode_length : {1}, state : {0},
     payoff : [1..NClasses -> {0, MaxReward}]]

\* one evaluate, about to visit the programs in `order`
Evaluation(programs, order, draws) ==
    [population |-> programs, order |-> order, visited |-> 0, draws |-> draws]

\* the same population, dataset or environment, and generator state, and two
\* visiting orders
OrderInit ==
    /\ \/ /\ eval_pc = "classification"
          /\ inputs \in SeqsUpTo(Records, MaxRecords)
          /\ parameters = <<>>
          /\ \E programs \in [1..MaxVisits -> Programs],
                order \in Permutations([i \in 1..MaxVisits |-> i]) :
               evaluations = << Evaluation(programs, [i \in 1..MaxVisits |-> i], <<>>),
                                Evaluation(programs, order, <<>>) >>
       \/ /\ eval_pc = "episodic"
          /\ inputs = <<>>
          /\ parameters \in OneStepParameters
          /\ \E programs \in [1..MaxVisits -> Programs],
                order \in Permutations([i \in 1..MaxVisits |-> i]),
                draws \in [1..MaxVisits -> 0..(NClasses - 1)] :
               evaluations = << Evaluation(programs, [i \in 1..MaxVisits |-> i], draws),
                                Evaluation(programs, order, draws) >>
    /\ program = <<>>
    /\ cursor = 0 /\ run_step = 0 /\ registers = <<>> /\ fitness = <<>>
    /\ outcomes = <<>> /\ run_score = 0 /\ scores = <<>> /\ calls = <<>>
    /\ returned = <<>>
    /\ DriverIdle
    /\ MetricIdle
    /\ ListIdle

\* one iteration of `for individual in population.iter_mut()` in evaluation k;
\* the second evaluation is run after the first
OrderVisit(k) ==
    /\ evaluations[k].visited < Len(evaluations[k].order)
    /\ \A j \in 1..(k - 1) : evaluations[j].visited = Len(evaluations[j].order)
    /\ LET e == evaluations[k]
           i == e.order[e.visited + 1]
           eval == EvalFitness(eval_pc, e.population[i], inputs, parameters, e.draws)
       IN  evaluations' =
               [evaluations EXCEPT ![k] =
                   [population |-> [e.population EXCEPT
                                       ![i] = EvalSetFitness(e.population[i], eval.fitness)],
                    order |-> e.order,
                    visited |-> e.visited + 1,
                    draws |-> eval.draws]]
    /\ UNCHANGED <<driver_vars, eval_vars, metric_vars, list_vars>>

OrderNext == \E k \in 1..2 : OrderVisit(k)

OrderSpec == OrderInit /\ [][OrderNext]_vars

-----------------------------------------------------------------------------
(* The linked list of src/src/utils/linked_list.rs: nodes, lists, cursors *)

MaxListLen == 5
MaxNext == 12

\* Option<Pointer<T>>::None; a pointer is the number of its node
NoNode == 0

\* Node::new: the node allocated next holds the data Len(ns) + 1
NodeNew == [next |-> NoNode, live |-> TRUE]

\* Node::point_to
PointTo(ns, i, target) == [ns EXCEPT ![i].next = target]

\* Option<usize> compared by the derived order: None is below every Some
OptionLt(a, b) == b /= None /\ (a = None \/ a[1] < b[1])
OptionLe(a, b) == a = b \/ OptionLt(a, b)

\* LinkedList::new
ListNew == [head |-> NoNode, tail |-> NoNode, length |-> 0]

\* LinkedList::append on list l; yields the heap and the list
ListAppend(ns, l) ==
    LET node == Len(ns) + 1
        heap == Append(ns, NodeNew)
    IN  IF l.head = NoNode
        THEN [nodes |-> heap,
              list |-> [l EXCEPT !.head = node, !.length = l.length + 1]]
        ELSE [nodes |-> PointTo(heap, IF l.tail = NoNode THEN l.head ELSE l.tail, node),
              list |-> [l EXCEPT !.tail = node, !.length = l.length + 1]]

\* Extend::extend with n elements: append, n times
RECURSIVE ListExtend(_, _, _)
ListExtend(ns, l, n) ==
    IF n = 0 THEN [nodes |-> ns, list |-> l]
    ELSE LET one == ListAppend(ns, l)
         IN  ListExtend(one.nodes, one.list, n - 1)

\* LinkedList::cursor_mut on list k, and CursorMut::reset
CursorMut(k) == [list |-> k, current |-> NoNode, index |-> None]

\* CursorMut::current: the data of the node, which is its number
Current(c) == IF c.current = NoNode THEN None ELSE Some(c.current)

\* (mutant) after the last node the cursor goes to the head at once
CursorNextNoGhost(ns, ls, c) ==
    IF c.current /= NoNode /\ ns[c.current].next /= NoNode
    THEN [c EXCEPT !.current = ns[c.current].next, !.index = Some(c.index[1] + 1)]
    ELSE IF ls[c.list].head /= NoNode
         THEN [c EXCEPT !.current = ls[c.list].head, !.index = Some(0)]
         ELSE c

\* CursorMut::next
CursorNext(ns, ls, c) ==
    IF c.current /= NoNode
    THEN [c EXCEPT !.current = ns[c.current].next,
                   !.index = IF c.index = None THEN None ELSE Some(c.index[1] + 1)]
    ELSE IF OptionLt(Some(ls[c.list].length), c.index)
         THEN [c EXCEPT !.current = NoNode, !.index = None]
         ELSE IF ls[c.list].head /= NoNode
              THEN [c EXCEPT !.current = ls[c.list].head, !.index = Some(0)]
              ELSE c

\* the loop of CursorMut::seek, `while self.index != Some(true_idx) { self.next() }`:
\* the cursor it ends on, the calls of next it made and the nodes they
\* dereferenced; a loop that is still running when the fuel is used up never
\* ends, the positions of a cursor being fewer than the fuel
RECURSIVE SeekLoop(_, _, _, _, _)
SeekLoop(ns, ls, walk, true_idx, fuel) ==
    IF walk.cursor.index = Some(true_idx) THEN walk
    ELSE IF fuel = 0 THEN [walk EXCEPT !.status = "hang"]
    ELSE SeekLoop(ns, ls,
                  [cursor |-> CursorNext(ns, ls, walk.cursor),
                   calls |-> walk.calls + 1,
                   touched |-> walk.touched \cup ({walk.cursor.current} \ {NoNode}),
                   status |-> "ok"],
                  true_idx, fuel - 1)

Fuel(ns) == 2 * (Len(ns) + 3)

Walk(c) == [cursor |-> c, calls |-> 0, touched |-> {}, status |-> "ok"]

\* CursorMut::seek; `idx % self.list.len()` panics on a list of length 0
Seek(ns, ls, c, idx) ==
    IF ls[c.list].length = 0 THEN [Walk(c) EXCEPT !.status = "panicked"]
    ELSE SeekLoop(ns, ls, Walk(c), idx % ls[c.list].length, Fuel(ns))

\* a list of n elements built by extend, and a cursor on it
CursorInit ==
    /\ \E n \in 0..MaxListLen :
          LET built == ListExtend(<<>>, ListNew, n)
          IN  /\ nodes = built.nodes
              /\ lists = <<built.list>>
    /\ cursors = <<CursorMut(1)>>
    /\ list_op = [kind |-> "cursor_mut", calls |-> 0]
    /\ list_pc = "ok"
    /\ DriverIdle
    /\ EvalIdle
    /\ MetricIdle
    /\ OrderIdle

CursorFrame == UNCHANGED <<nodes, lists, driver_vars, eval_vars, metric_vars, order_vars>>

\* cursor.next()
CursorNextCall ==
    /\ list_pc = "ok"
    /\ list_op.calls < MaxNext
    /\ cursors' = <<CursorNext(nodes, lists, cursors[1])>>
    /\ list_op' = [kind |-> "next", calls |-> list_op.calls + 1]
    /\ UNCHANGED list_pc
    /\ CursorFrame

\* cursor.seek(idx)
CursorSeekCall ==
    /\ list_pc = "ok"
    /\ \E idx \in 0..(2 * MaxListLen) :
          LET walk == Seek(nodes, lists, cursors[1], idx)
          IN  /\ list_op.calls + walk.calls <= MaxNext
              /\ cursors' = <<walk.cursor>>
              /\ list_op' = [kind |-> "seek", calls |-> list_op.calls + walk.calls]
              /\ list_pc' = walk.status
    /\ CursorFrame

CursorSpecNext == CursorNextCall \/ CursorSeekCall

CursorSpec == CursorInit /\ [][CursorSpecNext]_vars

-----------------------------------------------------------------------------
(* CursorMut::swap on two lists built by extend *)

\* usize::MAX % n, which is (2^64 - 1) % n, from 2^16 % n
UsizeMaxMod(n) ==
    LET a == 65536 % n
        b == (a * a) % n
        c == (b * b) % n
    IN  (c + n - 1) % n

\* CursorMut::seek_before: `if idx == 0 { self.reset() } self.seek(idx - 1)`;
\* 0 - 1 panics in a build with overflow checks and wraps to usize::MAX in
\* one without
SeekBefore(ns, ls, c, idx, overflow_checks) ==
    IF idx = 0
    THEN IF overflow_checks
         THEN [Walk(CursorMut(c.list)) EXCEPT !.status = "panicked"]
         ELSE SeekLoop(ns, ls, Walk(CursorMut(c.list)),
                       UsizeMaxMod(ls[c.list].length), Fuel(ns))
    ELSE Seek(ns, ls, c, idx - 1)

\* the builds that differ on a swap: with and without overflow checks when a
\* start index is 0, one otherwise
Builds(start_idx, other_start_idx) ==
    IF start_idx = 0 \/ other_start_idx = 0 THEN BOOLEAN ELSE {TRUE}

\* the outcome of swap: the heap, the two cursors, the nodes dereferenced and
\* how it ended
Swapped(ns, c, other, touched, status) ==
    [nodes |-> ns, cursors |-> <<c, other>>, touched |-> touched, status |-> status]

\* Option::or and Option::map_or on an end index
OrElse(opt, default) == IF opt = None THEN default ELSE opt[1]

\* exchange of the next pointers of nodes a and b
SwapNext(ns, a, b) == PointTo(PointTo(ns, a, ns[b].next), b, ns[a].next)

\* the second half of swap: both cursors sought to the node before their
\* end, and the next pointers of those nodes exchanged
SwapEnds(ns, ls, c, other, end_idx, other_end_idx, touched) ==
    LET self_walk == Seek(ns, ls, c, OrElse(end_idx, ls[c.list].length) - 1)
        other_walk == Seek(ns, ls, other,
                           OrElse(other_end_idx, ls[other.list].length) - 1)
        self_end == self_walk.cursor.current
        other_end == other_walk.cursor.current
        seen == touched \cup self_walk.touched
    IN  IF self_walk.status /= "ok"
        THEN Swapped(ns, self_walk.cursor, other, seen, self_walk.status)
        ELSE IF other_walk.status /= "ok"
        THEN Swapped(ns, self_walk.cursor, other_walk.cursor,
                     seen \cup other_walk.touched, other_walk.status)
        ELSE IF self_end = NoNode \/ other_end = NoNode
        THEN Swapped(ns, self_walk.cursor, other_walk.cursor,
                     seen \cup other_walk.touched, "panicked")
        ELSE Swapped(SwapNext(ns, self_end, other_end), self_walk.cursor,
                     other_walk.cursor,
                     seen \cup other_walk.touched \cup {self_end, other_end}, "ok")

\* CursorMut::swap of cursor c with cursor `other`
Swap(ns, ls, c, other, start_idx, other_start_idx, end_idx, other_end_idx, overflow_checks) ==
    LET self_len == ls[c.list].length
        self_walk == SeekBefore(ns, ls, CursorMut(c.list), start_idx, overflow_checks)
        other_walk == SeekBefore(ns, ls, CursorMut(other.list), other_start_idx,
                                 overflow_checks)
        self_start == self_walk.cursor.current
        other_start == other_walk.cursor.current
    IN  IF self_len = 0 \/ ls[other.list].length = 0
        THEN Swapped(ns, c, other, {}, "ok")
        ELSE IF \/ ~OptionLt(Some(start_idx), Some(OrElse(end_idx, self_len)))
                \/ ~OptionLt(Some(other_start_idx), Some(OrElse(other_end_idx, self_len)))
                \/ ~OptionLe(end_idx, Some(self_len))
                \/ ~OptionLe(other_end_idx, Some(self_len))
        THEN Swapped(ns, c, other, {}, "panicked")
        ELSE IF self_walk.status /= "ok"
        THEN Swapped(ns, self_walk.cursor, CursorMut(other.list), self_walk.touched,
                     self_walk.status)
        ELSE IF other_walk.status /= "ok"
        THEN Swapped(ns, self_walk.cursor, other_walk.cursor,
                     self_walk.touched \cup other_walk.touched, other_walk.status)
        ELSE IF self_start = NoNode \/ other_start = NoNode
        THEN Swapped(ns, self_walk.cursor, other_walk.cursor,
                     self_walk.touched \cup other_walk.touched, "panicked")
        ELSE SwapEnds(SwapNext(ns, self_start, other_start), ls, self_walk.cursor,
                      other_walk.cursor, end_idx, other_end_idx,
                      self_walk.touched \cup other_walk.touched
                          \cup {self_start, other_start})

\* the data of the nodes from node i on, in order; a chain longer than the
\* heap is cyclic and is cut
RECURSIVE Chain(_, _, _)
Chain(ns, i, fuel) ==
    IF i = NoNode \/ fuel = 0 THEN <<>>
    ELSE <<i>> \o Chain(ns, ns[i].next, fuel - 1)

\* what iterating over list l yields
Items(ns, l) == Chain(ns, l.head, Len(ns) + 1)

\* end indices: None, or any index up to one past the longest list
EndIndices == {None} \cup { Some(i) : i \in 0..(MaxListLen + 1) }

\* two lists built by extend, a cursor on each
SwapInit ==
    /\ \E n \in 0..MaxListLen, m \in 0..MaxListLen :
          LET first == ListExtend(<<>>, ListNew, n)
              second == ListExtend(first.nodes, ListNew, m)
          IN  /\ nodes = second.nodes
              /\ lists = <<first.list, second.list>>
    /\ cursors = <<CursorMut(1), CursorMut(2)>>
    /\ list_op = [kind |-> "cursor_mut"]
    /\ list_pc = "ok"
    /\ DriverIdle
    /\ EvalIdle
    /\ MetricIdle
    /\ OrderIdle

\* c1.swap(&mut c2, start_idx, other_start_idx, end_idx, other_end_idx)
SwapCall ==
    /\ list_pc = "ok"
    /\ list_op.kind = "cursor_mut"
    /\ \E start_idx \in 0..MaxListLen, other_start_idx \in 0..MaxListLen,
          end_idx \in EndIndices, other_end_idx \in EndIndices :
       \E overflow_checks \in Builds(start_idx, other_start_idx) :
          LET swapped == Swap(nodes, lists, cursors[1], cursors[2], start_idx,
                              other_start_idx, end_idx, other_end_idx, overflow_checks)
          IN  /\ nodes' = swapped.nodes
              /\ cursors' = swapped.cursors
              /\ list_pc' = swapped.status
              /\ list_op' = [kind |-> "swap",
                             self |-> Items(nodes, lists[1]),
                             other |-> Items(nodes, lists[2]),
                             start_idx |-> start_idx,
                             other_start_idx |-> other_start_idx,
                             end_idx |-> end_idx,
                             other_end_idx |-> other_end_idx]
    /\ UNCHANGED <<lists, driver_vars, eval_vars, metric_vars, order_vars>>

SwapSpecNext == SwapCall

SwapSpec == SwapInit /\ [][SwapSpecNext]_vars

-----------------------------------------------------------------------------
(* Any sequence of operations on linked lists *)

MaxNodes == 3
MaxLists == 2

\* LinkedList::dequeue: the head node is taken out and dropped; yields the
\* heap, the list and the node dereferenced
ListDequeue(ns, l) ==
    IF l.head = NoNode THEN [nodes |-> ns, list |-> l, touched |-> {}]
    ELSE LET next == ns[l.head].next
         IN  [nodes |-> [ns EXCEPT ![l.head].live = FALSE],
              list |-> [l EXCEPT !.head = next,
                                 !.tail = IF next = NoNode THEN NoNode ELSE l.tail],
              touched |-> {l.head}]

\* LinkedList::clear: `while self.head.is_some() { self.dequeue(); }`, which
\* stops at a node that was dropped before
RECURSIVE ListClear(_, _, _)
ListClear(ns, l, touched) ==
    IF l.head = NoNode \/ ~ns[l.head].live
    THEN [nodes |-> ns, list |-> l,
          touched |-> touched \cup ({l.head} \ {NoNode})]
    ELSE LET one == ListDequeue(ns, l)
         IN  ListClear(one.nodes, one.list, touched \cup one.touched)

\* CursorMut::split_after on list l with cursor c; yields the heap, the list
\* and the list split off
SplitAfter(ns, l, c) ==
    IF c.current /= NoNode
    THEN LET n_nodes_used == c.index[1] + 1
         IN  [nodes |-> PointTo(ns, c.current, NoNode),
              list |-> [l EXCEPT !.length = n_nodes_used, !.tail = c.current],
              split |-> [head |-> ns[c.current].next, tail |-> l.tail,
                         length |-> l.length - n_nodes_used]]
    ELSE [nodes |-> ns, list |-> ListNew, split |-> l]

\* the cursor after n calls of next, and the nodes they dereferenced
RECURSIVE NextTimes(_, _, _, _)
NextTimes(ns, ls, walk, n) ==
    IF n = 0 THEN walk
    ELSE NextTimes(ns, ls,
                   [walk EXCEPT !.cursor = CursorNext(ns, ls, walk.cursor),
                                !.touched = walk.touched
                                               \cup ({walk.cursor.current} \ {NoNode})],
                   n - 1)

\* an operation that dereferenced a dropped node has undefined behaviour
Outcome(ns, touched, status) ==
    IF \E i \in touched : ~ns[i].live THEN "undefined" ELSE status

\* one new list; split_after makes the others
ListInit ==
    /\ nodes = <<>>
    /\ lists = <<ListNew>>
    /\ cursors = <<>>
    /\ list_op = [kind |-> "new"]
    /\ list_pc = "ok"
    /\ DriverIdle
    /\ EvalIdle
    /\ MetricIdle
    /\ OrderIdle

ListFrame == UNCHANGED <<cursors, driver_vars, eval_vars, metric_vars, order_vars>>

\* what an operation leaves: nothing is changed by one whose behaviour is
\* undefined, the state being any at all from there on
ListResult(kind, ns, ls, touched, status) ==
    /\ list_pc' = Outcome(nodes, touched, status)
    /\ list_op' = [kind |-> kind]
    /\ IF Outcome(nodes, touched, status) = "undefined"
       THEN UNCHANGED <<nodes, lists>>
       ELSE nodes' = ns /\ lists' = ls
    /\ ListFrame

\* lists[k].append(data)
ListAppendCall(k) ==
    /\ list_pc = "ok"
    /\ Len(nodes) < MaxNodes
    /\ LET one == ListAppend(nodes, lists[k])
           tail == IF lists[k].tail = NoNode THEN lists[k].head ELSE lists[k].tail
       IN  ListResult("append", one.nodes, [lists EXCEPT ![k] = one.list],
                      {tail} \ {NoNode}, "ok")

\* lists[k].extend(two elements)
ListExtendCall(k) ==
    /\ list_pc = "ok"
    /\ Len(nodes) + 2 <= MaxNodes
    /\ LET all == ListExtend(nodes, lists[k], 2)
           tail == IF lists[k].tail = NoNode THEN lists[k].head ELSE lists[k].tail
       IN  ListResult("extend", all.nodes, [lists EXCEPT ![k] = all.list],
                      {tail} \ {NoNode}, "ok")

\* lists[k].dequeue()
ListDequeueCall(k) ==
    /\ list_pc = "ok"
    /\ LET one == ListDequeue(nodes, lists[k])
       IN  ListResult("dequeue", one.nodes, [lists EXCEPT ![k] = one.list],
                      one.touched, "ok")

\* lists[k].clear()
ListClearCall(k) ==
    /\ list_pc = "ok"
    /\ LET all == ListClear(nodes, lists[k], {})
       IN  ListResult("clear", all.nodes, [lists EXCEPT ![k] = all.list],
                      all.touched, "ok")

\* a cursor on lists[k] moved by n calls of next, then split_after
ListSplitAfterCall(k) ==
    /\ list_pc = "ok"
    /\ Len(lists) < MaxLists
    /\ \E n \in 0..lists[k].length :
          LET walk == NextTimes(nodes, lists, Walk(CursorMut(k)), n)
              parts == SplitAfter(nodes, lists[k], walk.cursor)
          IN  ListResult("split_after", parts.nodes,
                         Append([lists EXCEPT ![k] = parts.list], parts.split),
                         walk.touched \cup ({walk.cursor.current} \ {NoNode}), "ok")

\* the indices swap is called with: any when both lists have a length, one
\* choice when swap returns at once
ListStarts(k, j) ==
    IF lists[k].length = 0 \/ lists[j].length = 0 THEN {0} ELSE 0..(MaxNodes - 1)

ListEnds(k, j) ==
    IF lists[k].length = 0 \/ lists[j].length = 0 THEN {None}
    ELSE {None} \cup { Some(i) : i \in 1..MaxNodes }

\* swap between a cursor on lists[k] and a cursor on lists[j]
ListSwapCall(k, j) ==
    /\ list_pc = "ok"
    /\ k /= j
    /\ \E start_idx \in ListStarts(k, j), other_start_idx \in ListStarts(k, j),
          end_idx \in ListEnds(k, j), other_end_idx \in ListEnds(k, j) :
       \E overflow_checks \in Builds(start_idx, other_start_idx) :
          LET swapped == Swap(nodes, lists, CursorMut(k), CursorMut(j), start_idx,
                              other_start_idx, end_idx, other_end_idx, overflow_checks)
          IN  ListResult("swap", swapped.nodes, lists, swapped.touched, swapped.status)

ListNext ==
    \/ \E k \in 1..Len(lists) : ListAppendCall(k)
    \/ \E k \in 1..Len(lists) : ListExtendCall(k)
    \/ \E k \in 1..Len(lists) : ListDequeueCall(k)
    \/ \E k \in 1..Len(lists) : ListClearCall(k)
    \/ \E k \in 1..Len(lists) : ListSplitAfterCall(k)
    \/ \E k, j \in 1..Len(lists) : ListSwapCall(k, j)

ListSpec == ListInit /\ [][ListNext]_vars

-----------------------------------------------------------------------------
(* Properties *)

\* fitness f is not above fitness g: an unevaluated program is below every
\* evaluated one, evaluated ones compare by score
NotAbove(f, g) == IF f = <<>> THEN TRUE ELSE IF g = <<>> THEN FALSE ELSE f[1] <= g[1]

\* the program that the i-th push of the breed call put into the population
AddedProgram(i) == population[Len(population) - Len(added) + i]

\* C1: after breed has returned, the population holds exactly capacity programs,
\* whatever number of survivors it was called with.
C1_BreedFillsToCapacity ==
    (pc = "idle" /\ last = "breed") => Len(population) = capacity

\* C2: apply_selection(gap) on a full population of population_size programs
\* leaves floor((1 - gap) * population_size) programs.
C2_SelectionLeavesFloorShare ==
    (pc = "after_selection" /\ pop_len = hyper_params.population_size)
        => Len(population)
             = ((RatioDen - hyper_params.gap) * hyper_params.population_size)
                   \div RatioDen

\* C3: after init_population the population holds population_size programs,
\* each with at most max_instructions instructions and with fitness None.
C3_InitPopulationPost ==
    (pc = "idle" /\ last = "init_population") =>
        /\ Len(population) = hyper_params.population_size
        /\ \A i \in 1..Len(population) :
              /\ population[i].n <= hyper_params.max_instructions
              /\ population[i].fitness = <<>>

C3_Witness ==
    /\ pc = "idle" /\ last = "init_population"
    /\ Len(population) >= 2
    /\ \E i, j \in 1..Len(population) : population[i].n = 0 /\ population[j].n >= 2

\* C4: after rank the population is ascending by cached fitness, None below
\* every Some.
C4_RankAscending ==
    (pc = "idle" /\ last = "rank") =>
        \A i, j \in 1..Len(population) :
            i < j => NotAbove(population[i].fitness, population[j].fitness)

C4_Witness ==
    /\ pc = "idle" /\ last = "rank"
    /\ \E i, j, k \in 1..Len(population) :
          /\ population[i].fitness = <<>>
          /\ population[j].fitness /= <<>> /\ population[k].fitness /= <<>>
          /\ population[j].fitness /= population[k].fitness

\* C5: when apply_selection runs on a ranked population, every program it
\* removes has fitness not above that of every program that survives.
C5_SelectionRemovesWorst ==
    (pc = "idle" /\ last = "apply_selection" /\ was_sorted) =>
        \A i \in 1..Len(removed) : \A j \in 1..Len(population) :
            NotAbove(removed[i].fitness, population[j].fitness)

C5_Witness ==
    /\ pc = "idle" /\ last = "apply_selection" /\ was_sorted
    /\ \E i \in 1..Len(removed) : \E j \in 1..Len(population) :
          ~NotAbove(population[j].fitness, removed[i].fitness)

\* C6: with valid hyperparameters and no hook that can fail, execute
\* terminates: it runs max_generations cycles and returns the population.
C6_ExecuteTerminates ==
    (/\ hyper_params.population_size >= 2
     /\ hyper_params.max_instructions >= 1
     /\ hooks = {})
        => <>(pc = "done" /\ result = "Ok"
                /\ generation = hyper_params.max_generations)

\* C7: when a hook returns a failure, execute stops there: it is at its
\* return with that failure, and the failing hook is the last thing it did.
C7_HookFailureAborts ==
    hook_failed =>
        /\ pc = "failed"
        /\ result = "Err"
        /\ trace /= <<>>
        /\ trace[Len(trace)] \in hooks

C7_Witness ==
    /\ hook_failed
    /\ generation = 2
    /\ trace[Len(trace)] = "after_rank"

Cycle == <<"evaluate", "after_evaluate", "rank", "after_rank",
           "apply_selection", "after_selection", "breed", "after_breed">>

RECURSIVE Cycles(_)
Cycles(k) == IF k = 0 THEN <<>> ELSE Cycle \o Cycles(k - 1)

Installed(e) == e \notin HookNames \/ e \in hooks

\* the order of steps and installed hooks of a whole run
ExpectedTrace ==
    SelectSeq(<<"init_population", "after_init">>
                  \o Cycles(hyper_params.max_generations), Installed)

\* C8: after_init is invoked once, after init_population and before the first
\* evaluate; in every generation the steps and the installed hooks occur in
\* the order evaluate, after_evaluate, rank, after_rank, selection,
\* after_selection, breed, after_breed, each hook once, right after its step.
C8_StepAndHookOrder ==
    /\ Len(trace) <= Len(ExpectedTrace)
    /\ trace = SubSeq(ExpectedTrace, 1, Len(trace))
    /\ pc = "done" => trace = ExpectedTrace

C8_Witness ==
    /\ pc = "done"
    /\ hooks = HookNames
    /\ generation = 2
    /\ Len(trace) = 18

\* C9: evaluate does not run the fitness computation on a program whose
\* fitness is already cached.
C9_CachedNotRescored ==
    pc = "after_evaluate" => rescored = 0

\* C10 (as claimed): after breed, every program that breed added has fitness
\* None, clones included.
C10_AddedAreCleared ==
    (pc = "idle" /\ last = "breed") =>
        \A i \in 1..Len(added) : AddedProgram(i).fitness = <<>>

\* C10 (amended): after breed, every crossover child and every mutation child
\* has fitness None; a clone pushed to fill the remainder carries the cached
\* fitness of the program it copies.
C10_ChildrenClearedClonesCopy ==
    (pc = "idle" /\ last = "breed") =>
        \A i \in 1..Len(added) :
            IF added[i].kind = "clone"
            THEN /\ added[i].from \in 1..(Len(population) - Len(added) + i - 1)
                 /\ AddedProgram(i) = population[added[i].from]
            ELSE AddedProgram(i).fitness = <<>>

C10_Witness ==
    /\ pc = "idle" /\ last = "breed"
    /\ \E i \in 1..Len(added) :
          added[i].kind = "clone" /\ AddedProgram(i).fitness /= <<>>

\* the bank a program leaves when it is run on `input` alone, from the zeroed bank
AloneRegisters(p, input) == ApplyAll(p.instructions, RegistersNew(NRegisters), input)

\* register k holds the maximum of the class registers and no other one holds it
StrictMax(r, k) == \A j \in Classes : j /= k => r[j] < r[k]

C12_RecordsIndependent ==
    /\ \A i \in 1..Len(outcomes) :
          outcomes[i].registers = AloneRegisters(program, inputs[i])
    /\ fitness.n_correct
         = Cardinality({ i \in 1..cursor :
              Hit(<<InputArgmax(Ties(AloneRegisters(program, inputs[i]), NClasses)),
                    Some(inputs[i].class)>>) })

C12_Witness ==
    /\ eval_pc = "done"
    /\ Len(outcomes) = 2
    /\ outcomes[1].registers /= RegistersNew(NRegisters)
    /\ outcomes[1].hit /= outcomes[2].hit

InUnitInterval(x) == x.den > 0 /\ 0 <= x.num /\ x.num <= x.den

IsOne(x) == x.den > 0 /\ x.num = x.den

\* C13: the classification fitness is correct/total, lies in [0, 1], and is 1.0
\* exactly when every record's strict argmax decodes to the record's label.
C13_FitnessInUnitInterval ==
    eval_pc = "done" =>
        /\ returned[1] = [num |-> fitness.n_correct, den |-> fitness.total]
        /\ InUnitInterval(returned[1])
        /\ IsOne(returned[1])
             <=> \A i \in 1..Len(inputs) :
                    StrictMax(AloneRegisters(program, inputs[i]), inputs[i].class)

\* C14: the classification argmax is strict: the prediction is Some(k) exactly
\* when class register k alone holds the maximum; on a tie it is None, the
\* record is observed as a miss and the evaluation goes on.  The older
\* Registers::argmax(n_classes, desired_index) answers the same for the label.
C14_StrictArgmax ==
    /\ fitness.total = cursor
    /\ \A i \in 1..Len(outcomes) :
         LET r == outcomes[i].registers
         IN  /\ \A k \in Classes :
                   outcomes[i].predicted = Some(k) <=> StrictMax(r, k)
             /\ Cardinality(Ties(r, NClasses)) > 1
                   => outcomes[i].predicted = None /\ ~outcomes[i].hit
             /\ outcomes[i].hit <=> StrictMax(r, inputs[i].class)
             /\ \A k \in Classes :
                   RegistersArgmax(r, NClasses, k)
                       = IF StrictMax(r, k) THEN Some(k) ELSE None

C14_Witness ==
    /\ eval_pc = "done"
    /\ Len(outcomes) = 2
    /\ Cardinality(Ties(outcomes[1].registers, NClasses)) > 1
    /\ outcomes[2].predicted /= None
    /\ outcomes[2].hit

\* the calls of kind op among the first n calls
CallsOf(op, n) == { i \in 1..n : calls[i].op = op }

\* the episode (0-based run) the i-th call belongs to
EpisodeOf(i) == Cardinality(CallsOf("reset", i - 1))

\* the cumulative reward of episode e: every reward act answered in it
RECURSIVE SumValues(_)
SumValues(S) ==
    IF S = {} THEN 0
    ELSE LET i == CHOOSE x \in S : TRUE IN calls[i].value + SumValues(S \ {i})

EpisodeReward(e) == SumValues({ i \in CallsOf("act", Len(calls)) : EpisodeOf(i) = e })

\* v is the element at 0-based index k of the rewards of episodes 0..n-1 sorted ascending
AtSortedIndex(v, n, k) ==
    /\ \E e \in 0..(n - 1) : EpisodeReward(e) = v
    /\ Cardinality({ e \in 0..(n - 1) : EpisodeReward(e) < v }) <= k
    /\ k < Cardinality({ e \in 0..(n - 1) : EpisodeReward(e) <= v })

\* C15: for n_runs >= 1 the episodic evaluator returns, and records as the
\* program's fitness, the element at index floor(n_runs / 2) of the episodes'
\* cumulative rewards (terminal reward included) sorted ascending; five runs
\* scoring 1, 2, 3, 4, 5 in any order give 3.
C15_EpisodicMedian ==
    /\ eval_pc = "panicked" => parameters.n_runs = 0
    /\ (eval_pc = "done" /\ calls /= <<>>) =>
          /\ parameters.n_runs >= 1
          /\ AtSortedIndex(returned[1], parameters.n_runs, parameters.n_runs \div 2)
          /\ program.fitness = Some(returned[1])
          /\ parameters.script /= <<>> => returned[1] = 3

C15_Witness ==
    /\ eval_pc = "done"
    /\ parameters.script = <<5, 1, 4, 2, 3>>
    /\ returned = <<3>>

\* C16: the environment sees init once, before anything else; per episode at
\* most max_episode_length acts, none after a terminal one, then one reset;
\* finish once, last, after the reset of the last of the n_runs episodes.
C16_EnvironmentCallOrder ==
    LET n == Len(calls)
        resets == CallsOf("reset", n)
    IN  /\ \A i \in 1..n : calls[i].op = "init" <=> i = 1
        /\ Cardinality(resets) <= parameters.n_runs
        /\ \A e \in 0..parameters.n_runs :
              Cardinality({ i \in CallsOf("act", n) : EpisodeOf(i) = e })
                  <= IF e < parameters.n_runs THEN parameters.max_episode_length ELSE 0
        /\ \A i \in 1..(n - 1) :
              (calls[i].op = "act" /\ calls[i].terminal) => calls[i + 1].op = "reset"
        /\ \A i \in 1..n :
              calls[i].op = "finish" =>
                  /\ i = n
                  /\ Cardinality(resets) = parameters.n_runs
                  /\ parameters.n_runs > 0 => calls[i - 1].op = "reset"
        /\ (eval_pc \in {"done", "panicked"} /\ n > 0) => calls[n].op = "finish"

C16_Witness ==
    /\ eval_pc = "done"
    /\ parameters.n_runs = 2
    /\ parameters.max_episode_length = 2
    /\ Len(calls) = 7
    /\ calls[2].op = "act" /\ calls[2].terminal
    /\ calls[4].op = "act" /\ ~calls[4].terminal
    /\ calls[5].op = "act" /\ ~calls[5].terminal

\* C17: observe is commutative and associative: an accumulator fed a stream of
\* observations and one fed any permutation of it end with the same correct
\* count, the same total count and the same calculate result.
C17_ObserveOrderFree ==
    /\ (stream = <<>> /\ permuted = <<>>) => accuracy = accuracy_permuted
    /\ (returned /= <<>> /\ Len(outcomes) = 2 /\ eval_pc = "none")
          => returned[1] = returned[2]

C17_Witness ==
    /\ returned /= <<>>
    /\ eval_pc = "none"
    /\ outcomes[1] /= outcomes[2]
    /\ accuracy.n_correct = 2
    /\ accuracy.total = 4

IsZero(x) == x.num = 0 /\ x.den /= 0

\* C18: an accuracy accumulator that has received no observation reports 0
\* from calculate.
C18_ZeroObservationsIsZero ==
    (returned /= <<>> /\ eval_pc = "none" /\ accuracy.total = 0)
        => IsZero(returned[1])

\* C19: Program::generate succeeds for every max_instructions >= 0 and draws
\* the instruction count from the closed range [0, max_instructions]: every
\* count up to and including max_instructions can come out.
C19_GenerateClosedRange ==
    /\ ~(pc = "panicked" /\ last = "init_population")
    /\ (pc = "idle" /\ last = "init_population")
          => GenerateLengths(hyper_params.max_instructions)
                = 0..hyper_params.max_instructions

\* C20: the population never holds more programs than its capacity: a push on
\* a full population is rejected and leaves it unchanged.
C20_PushBounded == Len(population) <= capacity

\* C25: every program breed adds is made from survivors of the selection only:
\* the parents of a child and the program a clone copies were in the
\* population when breed started, never added by the same breed call.
C25_BredFromSurvivors == \A i \in 1..Len(added) : added[i].of_survivors

IsPrefix(s, t) == Len(s) <= Len(t) /\ SubSeq(t, 1, Len(s)) = s

\* C29: breed only appends: every step of breed leaves the programs that were
\* in the population where they were and as they were.
C29_BreedOnlyAppends == [][IsPrefix(population, population')]_vars

C29_Witness ==
    /\ pc = "idle" /\ last = "breed"
    /\ Len(population) - Len(added) = 2
    /\ \E i, j \in 1..Len(added) :
          /\ added[i].kind = "crossover"
          /\ added[j].kind = "mutation"

\* C21: with invalid hyperparameters execute fails at startup: nothing of the
\* run (init_population, evaluate, any hook) happens, and it does not return Ok.
C21_InvalidFailsAtStartup ==
    Invalid(hyper_params) => trace = <<>> /\ result /= "Ok"

\* C22: apply_selection checks the sorted invariant: a call that returns was
\* made on a population ascending by fitness (on any other it fails and
\* removes nothing).
C22_SelectionChecksSorted ==
    (pc = "idle" /\ last = "apply_selection") => was_sorted

\* the action registers (the first N_ACTION_REGISTERS of the bank) holding
\* the maximum among the action registers
Maximal(r) == { i \in 1..NClasses : \A j \in 1..NClasses : r[j] <= r[i] }

\* C27: the episodic evaluator's argmax returns the index of an action
\* register that holds the maximum among the action registers, and the
\* indices it chooses from are exactly the tied ones.
C27_ArgmaxRandomTieBreak ==
    eval_pc = "done" =>
        /\ returned[1].action \in 1..NClasses
        /\ returned[1].action \in Maximal(registers)
        /\ returned[1].indices = Maximal(registers)

C27_Witness ==
    /\ eval_pc = "done"
    /\ registers[1] = registers[2]
    /\ registers[3] > registers[2]
    /\ returned[1].action = 2

C26_OrderFree ==
    (\A k \in 1..2 : evaluations[k].visited = Len(evaluations[k].order))
        => \A i \in 1..Len(evaluations[1].population) :
              evaluations[1].population[i].fitness = evaluations[2].population[i].fitness

\* C24: a mutable cursor cycles through its list: after k calls of next from
\* the ghost position on a list of n >= 1 elements it is on element
\* (k mod (n + 1)) - 1, on the ghost position (current() is None) when that
\* is -1; on an empty list current() stays None.
C24_CursorCycles ==
    list_pc = "ok" =>
        LET n == Len(nodes)
            at == list_op.calls % (n + 1)
        IN  Current(cursors[1]) = IF at = 0 THEN None ELSE Some(at)

C24_Witness ==
    /\ list_pc = "ok"
    /\ Len(nodes) = 2
    /\ list_op.kind = "next"
    /\ list_op.calls = 4
    /\ Current(cursors[1]) = Some(1)

\* s[from..to) with 0-based indices
Slice(s, from, to) == SubSeq(s, from + 1, to)

\* whether swap was given segments that lie in their lists
SegmentsInLists ==
    /\ list_op.self /= <<>> /\ list_op.other /= <<>>
    /\ list_op.start_idx < OrElse(list_op.end_idx, Len(list_op.self))
    /\ OrElse(list_op.end_idx, Len(list_op.self)) <= Len(list_op.self)
    /\ list_op.other_start_idx < OrElse(list_op.other_end_idx, Len(list_op.other))
    /\ OrElse(list_op.other_end_idx, Len(list_op.other)) <= Len(list_op.other)

\* C23: swap exchanges the two segments: afterwards self holds
\* self[0..start) ++ other[other_start..other_end) ++ self[end..] and other
\* holds other[0..other_start) ++ self[start..end) ++ other[other_end..].
C23_SwapExchangesSegments ==
    (list_op.kind = "swap" /\ SegmentsInLists) =>
        LET a == list_op.self
            b == list_op.other
            end == OrElse(list_op.end_idx, Len(a))
            other_end == OrElse(list_op.other_end_idx, Len(b))
        IN  /\ list_pc = "ok"
            /\ Items(nodes, lists[1]) =
                   Slice(a, 0, list_op.start_idx)
                       \o Slice(b, list_op.other_start_idx, other_end)
                       \o Slice(a, end, Len(a))
            /\ Items(nodes, lists[2]) =
                   Slice(b, 0, list_op.other_start_idx)
                       \o Slice(a, list_op.start_idx, end)
                       \o Slice(b, other_end, Len(b))

\* the nodes reachable from the head of list l
Reachable(ns, l) == { Items(ns, l)[i] : i \in 1..Len(Items(ns, l)) }

\* LinkedList::is_empty
IsEmpty(l) == l.length = 0

\* C30: after any sequence of operations that ended normally, the len() of
\* each list is the number of nodes reachable from its head, and is_empty()
\* is true exactly when the list has no head node.
C30_LenCountsNodes ==
    list_pc = "ok" =>
        \A k \in 1..Len(lists) :
            /\ lists[k].length = Cardinality(Reachable(nodes, lists[k]))
            /\ IsEmpty(lists[k]) <=> lists[k].head = NoNode

====
